---- MODULE Spec2Model ----
(***************************************************************************)
(* kpulse: the stale-while-revalidate cache (SWRCache) and the rate        *)
(* limiter (RateLimiter) as state machines.  Times are milliseconds, as    *)
(* returned by Date.now().                                                 *)
(***************************************************************************)
EXTENDS Integers, Sequences, FiniteSets, TLC

VARIABLES
    now,                    \* Date.now()
    cache,                  \* SWRCache.cache: Map<string, CacheEntry>
    revalidationPromises,   \* SWRCache.revalidationPromises: key -> the continuations awaiting the stored promise
    upstream,               \* per key, the revalidator() calls started and not yet settled
    last,                   \* what the last SWRCache operation did and returned
    limits,                 \* RateLimiter.limits: Map<string, RateLimitEntry>
    isDevelopment,          \* process.env.NODE_ENV === "development"
    windowCalls,            \* per endpoint, the checks made since its counter's window began
    windowAccepted,         \* per endpoint, those of them that were accepted
    blockedAt,              \* per counter, the time a check last set blocked on it (-1: never)
    checked,                \* what the last RateLimiter operation returned
    mappings,               \* ArtistMappingCache.cache: the mappings in the Map's insertion order
    supplied,               \* per unifiedId, the last non-empty value supplied for each field of the stored mapping
    lookup,                 \* what the last ArtistMappingCache operation was given and returned
    apiCache,               \* SimpleCache.cache: Map<string, CacheItem>
    apiStored,              \* per key, the time, TTL and data of the last set
    apiLast,                \* what the last SimpleCache operation did and returned
    cleanupDue,             \* the time the cleanup interval next elapses
    dailyUsage,             \* YouTubeQuotaTracker.dailyUsage
    lastResetDate,          \* YouTubeQuotaTracker.lastResetDate, as a day number
    pending,                \* per kind of call, the calls past their quota check awaiting their request
    quotaLast               \* what the last YouTubeService step was and whether it was allowed or succeeded

swrVars == <<cache, revalidationPromises, upstream, last>>
rateVars == <<limits, isDevelopment, windowCalls, windowAccepted, blockedAt, checked>>
mappingVars == <<mappings, supplied, lookup>>
apiVars == <<apiCache, apiStored, apiLast, cleanupDue>>
quotaVars == <<dailyUsage, lastResetDate, pending, quotaLast>>
vars == <<now, swrVars, rateVars, mappingVars, apiVars, quotaVars>>

----------------------------------------------------------------------------
(* Bounds of the model *)

\* the clock advances in steps of ClockStep milliseconds (15 minutes)
ClockStep == 900000
\* the clock advances at most MaxTicks times
MaxTicks == 6
\* at most MaxWaiters continuations await one refresh promise
MaxWaiters == 2

Keys == {"k1"}
Values == {"X", "X2"}
\* the content types the callers of get and set use in the model
UsedTypes == {"artist-search", "trending"}

----------------------------------------------------------------------------
(* SWRCache: configuration *)

Minutes(n) == n * 60 * 1000
Hours(n) == n * 60 * 60 * 1000

CONFIG(contentType) ==
    CASE contentType = "artist-search"  -> [freshTTL |-> Minutes(10), staleTTL |-> Hours(1)]
      [] contentType = "artist-data"    -> [freshTTL |-> Minutes(30), staleTTL |-> Hours(2)]
      [] contentType = "artist-stats"   -> [freshTTL |-> Hours(1),    staleTTL |-> Hours(4)]
      [] contentType = "tracks"         -> [freshTTL |-> Hours(24),   staleTTL |-> Hours(7 * 24)]
      [] contentType = "similar"        -> [freshTTL |-> Hours(6),    staleTTL |-> Hours(24)]
      [] contentType = "related"        -> [freshTTL |-> Hours(6),    staleTTL |-> Hours(24)]
      [] contentType = "videos"         -> [freshTTL |-> Hours(6),    staleTTL |-> Hours(24)]
      [] contentType = "news"           -> [freshTTL |-> Hours(4),    staleTTL |-> Hours(12)]
      [] contentType = "trending"       -> [freshTTL |-> Minutes(15), staleTTL |-> Hours(1)]
      [] contentType = "artist-mapping" -> [freshTTL |-> Hours(24),   staleTTL |-> Hours(7 * 24)]

----------------------------------------------------------------------------
(* SWRCache: helpers *)

\* a set that drops every other key of the map
MapSetAlone(m, k, v) == [x \in {k} |-> v]

\* a delete that leaves the key in the map
MapDeleteNothing(m, k) == m

\* Map.set / Map.delete on a map modelled as a function over its keys
MapSet(m, k, v) == [x \in (DOMAIN m) \cup {k} |-> IF x = k THEN v ELSE m[x]]
MapDelete(m, k) == [x \in (DOMAIN m) \ {k} |-> m[x]]
EmptyMap == [x \in {} |-> 0]

\* the object literal written by every this.cache.set(key, {...})
NewEntry(data, createdAt, contentType) ==
    [data |-> data, createdAt |-> createdAt, isRevalidating |-> FALSE,
     contentType |-> contentType]

\* what a get resolves to, or the error it rejects with
Returned(data, isStale, source) ==
    [ok |-> TRUE, data |-> data, isStale |-> isStale, source |-> source]
Thrown == [ok |-> FALSE, data |-> "error", isStale |-> FALSE, source |-> "none"]

\* entries that never expire
IsExpiredNever(age, config) == FALSE
\* freshness that excludes the boundary
IsFreshStrict(age, config) == age < config.freshTTL

\* age > config.staleTTL
IsExpired(age, config) == age > config.staleTTL
\* age <= config.freshTTL
IsFresh(age, config) == age <= config.freshTTL

\* executeFetch without its deduplication
AlreadyFetchingNever(key) == FALSE
\* executeFetch deduplicating on the entry's flag instead of the stored promise
AlreadyFetchingByFlag(key) == key \in DOMAIN cache /\ cache[key].isRevalidating

\* executeFetch: this.revalidationPromises.has(key)
AlreadyFetching(key) == key \in DOMAIN revalidationPromises

\* a continuation awaiting the key's refresh promise: a get (which remembers the
\* `now` and contentType of its call, and the path it took) or a background
\* revalidation's then/catch
GetWaiter(callTime, contentType, path) ==
    [kind |-> "get", now |-> callTime, contentType |-> contentType, path |-> path]
BackgroundWaiter(contentType) ==
    [kind |-> "background", now |-> 0, contentType |-> contentType, path |-> "stale"]

\* the record kept of the last operation: which one, on which key, the path it
\* took, whether it called the revalidator, and what it handed back to callers
Did(op, key, contentType, path, invoked, results) ==
    [op |-> op, key |-> key, contentType |-> contentType, path |-> path,
     invoked |-> invoked, results |-> results, resumed |-> <<>>, outcome |-> "",
     at |-> now]

----------------------------------------------------------------------------
(* SWRCache.executeFetch, up to its await: the caller's continuation is        *)
(* registered on the stored promise, or on a new one after calling revalidator *)

ExecuteFetchPromises(key, waiter) ==
    IF AlreadyFetching(key)
    THEN MapSet(revalidationPromises, key, Append(revalidationPromises[key], waiter))
    ELSE MapSet(revalidationPromises, key, <<waiter>>)

\* an executeFetch that calls the revalidator again when its first call is pending
ExecuteFetchUpstreamAgain(key) == [upstream EXCEPT ![key] = @ + 1]

ExecuteFetchUpstream(key) ==
    IF AlreadyFetching(key) THEN upstream ELSE [upstream EXCEPT ![key] = @ + 1]

\* room for one more continuation on the key's promise (model bound)
CanWait(key) ==
    key \in DOMAIN revalidationPromises => Len(revalidationPromises[key]) < MaxWaiters

----------------------------------------------------------------------------
(* SWRCache.get, from the call to its first await or its return *)

\* no cached data: await executeFetch
GetMiss(key, contentType) ==
    /\ key \notin DOMAIN cache
    /\ CanWait(key)
    /\ revalidationPromises' = ExecuteFetchPromises(key, GetWaiter(now, contentType, "miss"))
    /\ upstream' = ExecuteFetchUpstream(key)
    /\ last' = Did("get", key, contentType, "miss", ~AlreadyFetching(key), <<>>)
    /\ UNCHANGED <<now, cache, rateVars, mappingVars, apiVars, quotaVars>>

\* data too old: await executeFetch
GetExpired(key, contentType) ==
    /\ key \in DOMAIN cache
    /\ IsExpired(now - cache[key].createdAt, CONFIG(contentType))
    /\ CanWait(key)
    /\ revalidationPromises' = ExecuteFetchPromises(key, GetWaiter(now, contentType, "expired"))
    /\ upstream' = ExecuteFetchUpstream(key)
    /\ last' = Did("get", key, contentType, "expired", ~AlreadyFetching(key), <<>>)
    /\ UNCHANGED <<now, cache, rateVars, mappingVars, apiVars, quotaVars>>

\* data is fresh: serve immediately
GetFresh(key, contentType) ==
    /\ key \in DOMAIN cache
    /\ ~IsExpired(now - cache[key].createdAt, CONFIG(contentType))
    /\ IsFresh(now - cache[key].createdAt, CONFIG(contentType))
    /\ last' = Did("get", key, contentType, "fresh", FALSE,
                   <<Returned(cache[key].data, FALSE, "cache")>>)
    /\ UNCHANGED <<now, cache, revalidationPromises, upstream, rateVars, mappingVars, apiVars, quotaVars>>

\* if (!entry.isRevalidating) this.triggerBackgroundRevalidation(...)
ShouldRevalidate(entry) == ~entry.isRevalidating

\* a stale path that awaits the revalidation instead of serving the stale data
GetStaleAwaiting(key, contentType) ==
    /\ key \in DOMAIN cache
    /\ ~IsExpired(now - cache[key].createdAt, CONFIG(contentType))
    /\ ~IsFresh(now - cache[key].createdAt, CONFIG(contentType))
    /\ CanWait(key)
    /\ revalidationPromises' =
            ExecuteFetchPromises(key, GetWaiter(now, contentType, "stale"))
    /\ upstream' = ExecuteFetchUpstream(key)
    /\ last' = Did("get", key, contentType, "stale", ~AlreadyFetching(key), <<>>)
    /\ UNCHANGED <<now, cache, rateVars, mappingVars, apiVars, quotaVars>>

\* data is stale but acceptable: serve immediately, revalidate in background
GetStale(key, contentType) ==
    /\ key \in DOMAIN cache
    /\ ~IsExpired(now - cache[key].createdAt, CONFIG(contentType))
    /\ ~IsFresh(now - cache[key].createdAt, CONFIG(contentType))
    /\ IF ShouldRevalidate(cache[key])
       THEN \* triggerBackgroundRevalidation, up to the executeFetch(...).then(...)
            /\ CanWait(key)
            /\ cache' = [cache EXCEPT ![key].isRevalidating = TRUE]
            /\ revalidationPromises' =
                    ExecuteFetchPromises(key, BackgroundWaiter(contentType))
            /\ upstream' = ExecuteFetchUpstream(key)
            /\ last' = Did("get", key, contentType, "stale", ~AlreadyFetching(key),
                           <<Returned(cache[key].data, TRUE, "cache")>>)
       ELSE /\ last' = Did("get", key, contentType, "stale", FALSE,
                           <<Returned(cache[key].data, TRUE, "cache")>>)
            /\ UNCHANGED <<cache, revalidationPromises, upstream>>
    /\ UNCHANGED <<now, rateVars, mappingVars, apiVars, quotaVars>>

Get(key, contentType) ==
    \/ GetMiss(key, contentType)
    \/ GetExpired(key, contentType)
    \/ GetFresh(key, contentType)
    \/ GetStale(key, contentType)

----------------------------------------------------------------------------
(* The refresh promise of a key settles: executeFetch's finally removes the   *)
(* stored promise, then the continuations registered on it run, in the order *)
(* of their calls, within the same drain of the microtask queue              *)

Outcomes == Values \cup {"error"}

\* createdAt written by the continuation of a get (createdAt: now)
GetWriteTime(waiter) == waiter.now
\* createdAt written by the then-callback of a background revalidation
BackgroundWriteTime == now

\* a catch-callback that drops the entry
BackgroundFailedEvicts(c, key) == MapDelete(c, key)

\* a catch-callback that leaves the entry flagged
BackgroundFailedKeepsFlag(c, key) == c

\* the catch-callback of a background revalidation
BackgroundFailed(c, key) ==
    IF key \in DOMAIN c THEN [c EXCEPT ![key].isRevalidating = FALSE] ELSE c

\* a failed fetch that drops the entry it could not replace
GetFailedEvicts(c, key) == MapDelete(c, key)

\* a get whose awaited executeFetch rejects: the error propagates, nothing is written
GetFailed(c, key) == c

\* a background write with a version check: it leaves an entry that was
\* rewritten since the revalidation started (its flag is cleared) as it is
ResumeOneChecked(c, key, waiter, outcome) ==
    IF outcome = "error"
    THEN IF waiter.kind = "get" THEN GetFailed(c, key) ELSE BackgroundFailed(c, key)
    ELSE IF waiter.kind = "get"
         THEN MapSet(c, key, NewEntry(outcome, GetWriteTime(waiter), waiter.contentType))
         ELSE IF key \in DOMAIN c /\ ~c[key].isRevalidating THEN c
              ELSE MapSet(c, key, NewEntry(outcome, BackgroundWriteTime, waiter.contentType))

\* the cache after one continuation has run
ResumeOne(c, key, waiter, outcome) ==
    IF outcome = "error"
    THEN IF waiter.kind = "get" THEN GetFailed(c, key) ELSE BackgroundFailed(c, key)
    ELSE IF waiter.kind = "get"
         THEN MapSet(c, key, NewEntry(outcome, GetWriteTime(waiter), waiter.contentType))
         ELSE MapSet(c, key, NewEntry(outcome, BackgroundWriteTime, waiter.contentType))

RECURSIVE Resume(_, _, _, _)
Resume(c, key, waiters, outcome) ==
    IF waiters = <<>> THEN c
    ELSE Resume(ResumeOne(c, key, Head(waiters), outcome), key, Tail(waiters), outcome)

\* what a get that awaited the fetch hands to its caller
GetResult(outcome) ==
    IF outcome = "error" THEN Thrown ELSE Returned(outcome, FALSE, "fresh")

IsGetWaiter(waiter) == waiter.kind = "get"

GetResults(waiters, outcome) ==
    [i \in 1..Len(SelectSeq(waiters, IsGetWaiter)) |-> GetResult(outcome)]

Settle(key, outcome) ==
    /\ upstream[key] > 0
    /\ key \in DOMAIN revalidationPromises
    /\ cache' = Resume(cache, key, revalidationPromises[key], outcome)
    /\ revalidationPromises' = MapDelete(revalidationPromises, key)
    /\ upstream' = [upstream EXCEPT ![key] = @ - 1]
    /\ last' = [Did("settle", key, "", IF outcome = "error" THEN "rejected" ELSE "resolved",
                    FALSE, GetResults(revalidationPromises[key], outcome))
                EXCEPT !.resumed = revalidationPromises[key], !.outcome = outcome]
    /\ UNCHANGED <<now, rateVars, mappingVars, apiVars, quotaVars>>

----------------------------------------------------------------------------
(* SWRCache.set and SWRCache.cleanup *)

Set(key, data, contentType) ==
    /\ cache' = MapSet(cache, key, NewEntry(data, now, contentType))
    /\ last' = Did("set", key, contentType, "", FALSE, <<>>)
    /\ UNCHANGED <<now, revalidationPromises, upstream, rateVars, mappingVars, apiVars, quotaVars>>

\* the keys cleanup collects in toDelete
ToDelete == {key \in DOMAIN cache :
                now - cache[key].createdAt > CONFIG(cache[key].contentType).staleTTL}

Cleanup ==
    /\ cache' = [key \in (DOMAIN cache) \ ToDelete |-> cache[key]]
    /\ last' = Did("cleanup", "", "", "", FALSE, <<Cardinality(ToDelete)>>)
    /\ UNCHANGED <<now, revalidationPromises, upstream, rateVars, mappingVars, apiVars, quotaVars>>

\* time passes
Tick ==
    /\ now < MaxTicks * ClockStep
    /\ now' = now + ClockStep
    /\ last' = Did("tick", "", "", "", FALSE, <<>>)
    /\ UNCHANGED <<cache, revalidationPromises, upstream, rateVars, mappingVars, apiVars, quotaVars>>

----------------------------------------------------------------------------

----------------------------------------------------------------------------
(* RateLimiter: configuration *)

\* the endpoints checked in the model
Endpoints == {"artist-detail"}

LIMITS(key) ==
    CASE key = "artist-detail"    -> [max |-> 500,  window |-> 60000]
      [] key = "artist-search"    -> [max |-> 500,  window |-> 60000]
      [] key = "artist-image"     -> [max |-> 1000, window |-> 60000]
      [] key = "spotify-tracks"   -> [max |-> 100,  window |-> 300000]
      [] key = "spotify-albums"   -> [max |-> 50,   window |-> 300000]
      [] key = "spotify-related"  -> [max |-> 100,  window |-> 300000]
      [] key = "trending-artists" -> [max |-> 100,  window |-> 600000]
      [] key = "youtube-videos"   -> [max |-> 50,   window |-> 3600000]
      [] key = "artist-news"      -> [max |-> 200,  window |-> 3600000]
      [] key = "global"           -> [max |-> 2000, window |-> 60000]

blockDuration == 30000
burstWindow == 60000
burstMax == 300

\* the rate limiter's clock advances in steps of RateStep milliseconds
RateStep == 20000
\* and at most MaxRateTicks times
MaxRateTicks == 4

\* an absent optional field (blockUntil?: number)
Undefined == -1
Truthy(x) == x # Undefined /\ x # 0

\* Math.ceil(a / b) for b > 0
Ceil(a, b) == -((-a) \div b)
Min(a, b) == IF a <= b THEN a ELSE b

----------------------------------------------------------------------------
(* RateLimiter.getOrCreateEntry: the entry of `key` as it is returned at time t *)

GetWindow(key) == LIMITS(key).window

Created(key, t) ==
    [count |-> 0, resetTime |-> t + GetWindow(key), blocked |-> FALSE,
     blockUntil |-> Undefined, burstCount |-> 0, lastBurstReset |-> t]

\* reset counter if window expired
WindowReset(entry, key, t) ==
    IF t > entry.resetTime
    THEN [entry EXCEPT !.count = 0, !.resetTime = t + GetWindow(key),
                       !.blocked = FALSE, !.blockUntil = Undefined]
    ELSE entry

\* reset burst counter if burst window expired
BurstReset(entry, t) ==
    IF t > entry.lastBurstReset + burstWindow
    THEN [entry EXCEPT !.burstCount = 0, !.lastBurstReset = t]
    ELSE entry

\* check if still blocked, else unblock
Unblock(entry, t) ==
    IF entry.blocked /\ Truthy(entry.blockUntil) /\ t < entry.blockUntil
    THEN entry
    ELSE IF entry.blocked /\ Truthy(entry.blockUntil) /\ t >= entry.blockUntil
         THEN [entry EXCEPT !.blocked = FALSE, !.count = 0, !.burstCount = 0,
                            !.blockUntil = Undefined]
         ELSE entry

GetOrCreateEntry(lim, key, t) ==
    Unblock(BurstReset(WindowReset(
        IF key \in DOMAIN lim THEN lim[key] ELSE Created(key, t), key, t), t), t)

----------------------------------------------------------------------------
(* RateLimiter.checkLimit *)

Result(allowed, remaining, resetIn, reason) ==
    [allowed |-> allowed, remaining |-> remaining, resetIn |-> resetIn, reason |-> reason]

\* an overflow test that lets one request too many through
WouldExceedStrict(entry, limit) == entry.count > limit.max

\* endpointEntry.count >= endpointLimit.max
WouldExceed(entry, limit) == entry.count >= limit.max

\* a burst throttle that does not wait for the end of the burst window
BurstThrottledAnytime(globalEntry, t, dev) ==
    ~dev /\ globalEntry.burstCount >= burstMax

\* the soft burst throttle of production mode
BurstResetIn(globalEntry, t) ==
    Ceil(globalEntry.lastBurstReset + burstWindow - t, 1000)
BurstThrottled(globalEntry, t, dev) ==
    /\ ~dev
    /\ globalEntry.burstCount >= burstMax
    /\ BurstResetIn(globalEntry, t) <= 3

\* a block that has no end
BlockWithoutUntil(entry, t) == [entry EXCEPT !.blocked = TRUE]

\* a block that counts the rejected request
BlockCounting(entry, t) ==
    [entry EXCEPT !.blocked = TRUE, !.blockUntil = t + blockDuration, !.count = @ + 1]

\* a counter blocked by an overflow
Block(entry, t) == [entry EXCEPT !.blocked = TRUE, !.blockUntil = t + blockDuration]

\* a counter that counts the request twice
IncrementTwice(entry) == [entry EXCEPT !.count = @ + 2]

\* increment counters
Increment(entry) == [entry EXCEPT !.count = @ + 1]

\* a burst count tracked in every execution mode
TrackBurstAlways(entry, dev) == [entry EXCEPT !.burstCount = @ + 1]

\* only track burst count in production
TrackBurst(entry, dev) == IF dev THEN entry ELSE [entry EXCEPT !.burstCount = @ + 1]

\* the limits map and the result after checkLimit(endpoint) at time t
CheckLimit(lim, endpoint, t, dev) ==
    LET endpointEntry == GetOrCreateEntry(lim, endpoint, t)
        lim1 == MapSet(lim, endpoint, endpointEntry)
        globalEntry == GetOrCreateEntry(lim1, "global", t)
        lim2 == MapSet(lim1, "global", globalEntry)
        endpointLimit == LIMITS(endpoint)
        globalLimit == LIMITS("global")
        wouldExceedEndpoint == WouldExceed(endpointEntry, endpointLimit)
        wouldExceedGlobal == WouldExceed(globalEntry, globalLimit)
        endpointAfter == Increment(endpointEntry)
        globalAfter == TrackBurst(Increment(globalEntry), dev)
    IN  IF endpointEntry.blocked
        THEN [limits |-> lim2,
              result |-> Result(FALSE, 0, Ceil(endpointEntry.blockUntil - t, 1000),
                                "endpoint blocked")]
        ELSE IF globalEntry.blocked
        THEN [limits |-> lim2,
              result |-> Result(FALSE, 0, Ceil(globalEntry.blockUntil - t, 1000),
                                "global blocked")]
        ELSE IF wouldExceedEndpoint \/ wouldExceedGlobal
        THEN [limits |->
                  [key \in DOMAIN lim2 |->
                      IF key = endpoint /\ wouldExceedEndpoint THEN Block(lim2[key], t)
                      ELSE IF key = "global" /\ wouldExceedGlobal THEN Block(lim2[key], t)
                      ELSE lim2[key]],
              result |-> Result(FALSE, 0, Ceil(blockDuration, 1000), "limit exceeded")]
        ELSE IF BurstThrottled(globalEntry, t, dev)
        THEN [limits |-> lim2,
              result |-> Result(FALSE, 0, BurstResetIn(globalEntry, t), "burst")]
        ELSE [limits |-> MapSet(MapSet(lim2, endpoint, endpointAfter), "global", globalAfter),
              result |-> Result(TRUE,
                                Min(endpointLimit.max - endpointAfter.count,
                                    globalLimit.max - globalAfter.count),
                                Ceil(Min(endpointAfter.resetTime - t,
                                         globalAfter.resetTime - t), 1000),
                                "ok")]

\* no check has returned since the clock last advanced
NotChecked == [op |-> "none", endpoint |-> "", at |-> 0, nth |-> 0,
               newWindow |-> FALSE, result |-> Result(TRUE, 0, 0, "none")]

\* does getOrCreateEntry start a new fixed window for the key at time t?
StartsWindow(lim, key, t) == key \notin DOMAIN lim \/ t > lim[key].resetTime

\* the ordinal of a check within its counter's window; counting stops past max + 2
NthInWindow(endpoint) ==
    IF StartsWindow(limits, endpoint, now) THEN 1
    ELSE Min(windowCalls[endpoint] + 1, LIMITS(endpoint).max + 2)

\* the accepted checks within the counter's window, this one included; counting
\* stops past max + 1
AcceptedInWindow(endpoint, allowed) ==
    LET before == IF StartsWindow(limits, endpoint, now) THEN 0
                  ELSE windowAccepted[endpoint]
    IN  IF allowed THEN Min(before + 1, LIMITS(endpoint).max + 1) ELSE before

\* the counters a check newly blocks
NewlyBlocked(before, after) ==
    {key \in DOMAIN after :
        after[key].blocked /\ (key \notin DOMAIN before \/ ~before[key].blocked
                                \/ before[key].blockUntil # after[key].blockUntil)}

Check(endpoint) ==
    LET out == CheckLimit(limits, endpoint, now, isDevelopment)
    IN  /\ limits' = out.limits
        /\ windowCalls' = [windowCalls EXCEPT ![endpoint] = NthInWindow(endpoint)]
        /\ windowAccepted' = [windowAccepted EXCEPT
                                 ![endpoint] = AcceptedInWindow(endpoint, out.result.allowed)]
        /\ blockedAt' = [key \in DOMAIN blockedAt |->
                            IF key \in NewlyBlocked(limits, out.limits)
                            THEN now ELSE blockedAt[key]]
        /\ checked' = [op |-> "check", endpoint |-> endpoint, at |-> now,
                       nth |-> NthInWindow(endpoint),
                       newWindow |-> StartsWindow(limits, endpoint, now),
                       result |-> out.result]
        /\ UNCHANGED <<now, isDevelopment, swrVars, mappingVars, apiVars, quotaVars>>

----------------------------------------------------------------------------
(* Series of checkLimit calls: the requests of a page load arrive back to back, *)
(* within one reading of the clock                                             *)

\* the endpoint checked in series
SeriesEndpoints == {"artist-image"}
\* an endpoint's max is used up by SeriesPerWindow series
SeriesPerWindow == 4
SeriesLength(endpoint) == LIMITS(endpoint).max \div SeriesPerWindow

\* the limits map as the entries it holds, key by key
Stored(lim) == lim @@ <<>>

\* the limits map after n calls of checkLimit(endpoint) at time t
RECURSIVE CheckLimitTimes(_, _, _, _, _)
CheckLimitTimes(lim, endpoint, t, dev, n) ==
    IF n = 0 THEN lim
    ELSE IF n = 1 THEN Stored(CheckLimit(lim, endpoint, t, dev).limits)
    ELSE \* the first half of the calls is evaluated before the second
         LET half == CheckLimitTimes(lim, endpoint, t, dev, n \div 2)
         IN  IF "global" \in DOMAIN half
             THEN CheckLimitTimes(half, endpoint, t, dev, n - (n \div 2))
             ELSE half

\* SeriesLength(endpoint) calls of checkLimit(endpoint); the result kept is that
\* of the last call
CheckSeries(endpoint) ==
    LET before == CheckLimitTimes(limits, endpoint, now, isDevelopment,
                                  SeriesLength(endpoint) - 1)
        out == CheckLimit(before, endpoint, now, isDevelopment)
    IN  /\ limits' = out.limits
        /\ blockedAt' = [key \in DOMAIN blockedAt |->
                            IF key \in NewlyBlocked(limits, out.limits)
                            THEN now ELSE blockedAt[key]]
        /\ checked' = [op |-> "series", endpoint |-> endpoint, at |-> now, nth |-> 0,
                       newWindow |-> StartsWindow(limits, endpoint, now),
                       result |-> out.result]
        /\ UNCHANGED <<now, isDevelopment, windowCalls, windowAccepted, swrVars, mappingVars, apiVars, quotaVars>>

\* no single check is counted in a window when the calls come in series
SeriesInit ==
    /\ limits = EmptyMap
    /\ windowCalls = EmptyMap
    /\ windowAccepted = EmptyMap
    /\ blockedAt = [key \in SeriesEndpoints \cup {"global"} |-> -1]
    /\ checked = NotChecked

----------------------------------------------------------------------------
(* RateLimiter.checkLimitWithoutIncrement *)

\* a variant that counts the request it lets through
WithoutIncrementCounting(lim, endpoint) ==
    [lim EXCEPT ![endpoint].count = @ + 1, !["global"].count = @ + 1]

\* get entries without incrementing: the map holds what getOrCreateEntry left
WithoutIncrement(lim, endpoint) == lim

\* the limits map and the result after checkLimitWithoutIncrement(endpoint) at time t
CheckLimitWithoutIncrement(lim, endpoint, t) ==
    LET endpointEntry == GetOrCreateEntry(lim, endpoint, t)
        lim1 == MapSet(lim, endpoint, endpointEntry)
        globalEntry == GetOrCreateEntry(lim1, "global", t)
        lim2 == MapSet(lim1, "global", globalEntry)
    IN  IF endpointEntry.blocked \/ globalEntry.blocked
        THEN [limits |-> lim2,
              result |-> Result(FALSE, 0, Ceil(blockDuration, 1000), "blocked")]
        ELSE [limits |-> WithoutIncrement(lim2, endpoint),
              result |-> Result(TRUE,
                                Min(LIMITS(endpoint).max - endpointEntry.count,
                                    LIMITS("global").max - globalEntry.count),
                                Ceil(endpointEntry.resetTime - t, 1000),
                                "ok")]

\* the ghost counts of a window end when getOrCreateEntry starts a new one
CheckWithoutIncrement(endpoint) ==
    LET out == CheckLimitWithoutIncrement(limits, endpoint, now)
        fresh == StartsWindow(limits, endpoint, now)
    IN  /\ limits' = out.limits
        /\ windowCalls' = [windowCalls EXCEPT ![endpoint] = IF fresh THEN 0 ELSE @]
        /\ windowAccepted' = [windowAccepted EXCEPT ![endpoint] = IF fresh THEN 0 ELSE @]
        /\ blockedAt' = [key \in DOMAIN blockedAt |->
                            IF key \in NewlyBlocked(limits, out.limits)
                            THEN now ELSE blockedAt[key]]
        /\ checked' = [op |-> "checkWithoutIncrement", endpoint |-> endpoint, at |-> now,
                       nth |-> 0, newWindow |-> fresh, result |-> out.result,
                       check |-> CheckLimit(limits, endpoint, now, isDevelopment).result]
        /\ UNCHANGED <<now, isDevelopment, swrVars, mappingVars, apiVars, quotaVars>>

RateTick ==
    /\ now < MaxRateTicks * RateStep
    /\ now' = now + RateStep
    /\ checked' = NotChecked
    /\ UNCHANGED <<limits, isDevelopment, windowCalls, windowAccepted, blockedAt, swrVars, mappingVars, apiVars, quotaVars>>

RateInit ==
    /\ limits = EmptyMap
    /\ windowCalls = [endpoint \in Endpoints |-> 0]
    /\ windowAccepted = [endpoint \in Endpoints |-> 0]
    /\ blockedAt = [key \in Endpoints \cup {"global"} |-> -1]
    /\ checked = NotChecked

----------------------------------------------------------------------------
(* SWRCache as ArtistService calls it: each cache key is read with the content *)
(* type of its method, and 'albums' has no entry in CONFIG                     *)

\* the content types CONFIG has an entry for
ContentTypes == {"artist-search", "artist-data", "artist-stats", "tracks", "similar",
                 "related", "videos", "news", "trending", "artist-mapping"}

\* this.CONFIG[contentType] is not undefined
HasConfig(contentType) == contentType \in ContentTypes

\* the cache keys of searchArtists and getLatestAlbum
ServiceKeys == {"unified-search:abba:10", "unified-album:abba"}

\* the content type each method passes to swrCache.get
ServiceContentType(key) ==
    IF key = "unified-album:abba" THEN "albums" ELSE "artist-search"

\* the service's clock advances in steps of ServiceStep milliseconds (30 minutes)
ServiceStep == 1800000
\* and at most MaxServiceTicks times
MaxServiceTicks == 3

\* get on a key that holds an entry, with a content type CONFIG lacks: config is
\* undefined and reading config.staleTTL throws a TypeError, so the get rejects
GetUnconfigured(key, contentType) ==
    /\ key \in DOMAIN cache
    /\ ~HasConfig(contentType)
    /\ last' = Did("get", key, contentType, "throws", FALSE, <<Thrown>>)
    /\ UNCHANGED <<now, cache, revalidationPromises, upstream, rateVars, mappingVars, apiVars, quotaVars>>

ServiceGet(key) ==
    IF key \in DOMAIN cache /\ ~HasConfig(ServiceContentType(key))
    THEN GetUnconfigured(key, ServiceContentType(key))
    ELSE Get(key, ServiceContentType(key))

\* cleanup reads config.staleTTL of every entry: it throws at the first entry
\* whose content type CONFIG lacks, before anything is deleted
CleanupThrows == \E key \in DOMAIN cache : ~HasConfig(cache[key].contentType)

CleanupUnconfigured ==
    /\ CleanupThrows
    /\ last' = Did("cleanup", "", "", "throws", FALSE, <<>>)
    /\ UNCHANGED <<now, cache, revalidationPromises, upstream, rateVars, mappingVars, apiVars, quotaVars>>

ServiceCleanup == IF CleanupThrows THEN CleanupUnconfigured ELSE Cleanup

ServiceTick ==
    /\ now < MaxServiceTicks * ServiceStep
    /\ now' = now + ServiceStep
    /\ last' = Did("tick", "", "", "", FALSE, <<>>)
    /\ UNCHANGED <<cache, revalidationPromises, upstream, rateVars, mappingVars, apiVars, quotaVars>>

----------------------------------------------------------------------------
(* SWRCache written directly: set on two keys, next to get and the refreshes *)

DirectKeys == {"k1", "k2"}
\* the key that is also read; the other one is only written
ReadKeys == {"k1"}
\* the content types of the direct writes and of the gets that follow them
DirectTypes == {"artist-search", "artist-data"}
\* the values set is called with; the revalidators resolve with another value
SetValues == {"X"}
RefreshOutcomes == {"X2", "error"}

\* the clock of the direct writes advances in steps of DirectStep milliseconds
\* (30 minutes)
DirectStep == 1800000
\* and at most MaxDirectTicks times
MaxDirectTicks == 3

DirectTick ==
    /\ now < MaxDirectTicks * DirectStep
    /\ now' = now + DirectStep
    /\ last' = Did("tick", "", "", "", FALSE, <<>>)
    /\ UNCHANGED <<cache, revalidationPromises, upstream, rateVars, mappingVars, apiVars, quotaVars>>

----------------------------------------------------------------------------
(* ArtistMappingCache *)

\* the mapping cache's clock advances in steps of MappingStep milliseconds (24 hours)
MappingStep == 86400000
\* and at most MaxMappingTicks times
MaxMappingTicks == 2

\* private readonly TTL = 24 * 60 * 60 * 1000
TTL == Hours(24)

\* an optional string field that is undefined
Absent == "<undefined>"

UnifiedIds == {"abba", "queen"}
SpotifyIds == {"s1"}
SpotifyNames == {"ABBA"}
LastFmNames == {"Abba"}
\* the names getByLastFmName is asked for
SearchNames == {"Abba", "ABBA"}
\* the ids getBySpotifyId is asked for
SpotifySearchIds == {"s1", "S1"}

\* String.prototype.toLowerCase on the names of the model
ToLowerCase(name) ==
    CASE name = "ABBA" -> "abba"
      [] name = "Abba" -> "abba"
      [] name = "S1" -> "s1"
      [] OTHER -> name

\* what get() returns for a key the Map does not hold, and what the lookups
\* return as null: every optional field of it reads as undefined
Null == [unifiedId |-> Absent, spotifyId |-> Absent, spotifyName |-> Absent,
         lastFmName |-> Absent, lastUpdated |-> -1]

\* the Map, kept as the sequence of its values in insertion order
IndexOf(c, unifiedId) ==
    IF \E i \in DOMAIN c : c[i].unifiedId = unifiedId
    THEN CHOOSE i \in DOMAIN c : c[i].unifiedId = unifiedId
    ELSE 0
CacheGet(c, unifiedId) ==
    IF IndexOf(c, unifiedId) = 0 THEN Null ELSE c[IndexOf(c, unifiedId)]
CacheSet(c, mapping) ==
    IF IndexOf(c, mapping.unifiedId) = 0 THEN Append(c, mapping)
    ELSE [c EXCEPT ![IndexOf(c, mapping.unifiedId)] = mapping]
\* a delete that removes nothing
CacheDeleteNothing(c, unifiedId) == c
CacheDelete(c, unifiedId) ==
    LET Kept(mapping) == mapping.unifiedId # unifiedId IN SelectSeq(c, Kept)

\* a mapping that is never taken for expired
MappingExpiredNever(mapping, t) == FALSE

\* Date.now() - mapping.lastUpdated > this.TTL
MappingExpired(mapping, t) == t - mapping.lastUpdated > TTL

\* a merge in which the supplied value always wins
OrElseSupplied(a, b) == a

\* a || b on optional strings: undefined and "" are falsy
Falsy(a) == a = Absent \/ a = ""
OrElse(a, b) == IF Falsy(a) THEN b ELSE a

\* the record kept of the last operation on the mapping cache
Looked(op, arg, existing, result) ==
    [op |-> op, arg |-> arg, existing |-> existing, result |-> result, at |-> now]

NothingSupplied == [spotifyId |-> Absent, spotifyName |-> Absent, lastFmName |-> Absent]

\* the fields the caller ever supplied non-empty for the mappings still stored
SuppliedFor(c) ==
    [unifiedId \in UnifiedIds |->
        IF IndexOf(c, unifiedId) = 0 THEN NothingSupplied ELSE supplied[unifiedId]]

GetByUnifiedId(unifiedId) ==
    LET mapping == CacheGet(mappings, unifiedId)
    IN  /\ IF mapping = Null
           THEN /\ lookup' = Looked("getByUnifiedId", unifiedId, mapping, Null)
                /\ UNCHANGED <<mappings, supplied>>
           ELSE IF MappingExpired(mapping, now)
           THEN /\ mappings' = CacheDelete(mappings, unifiedId)
                /\ supplied' = SuppliedFor(mappings')
                /\ lookup' = Looked("getByUnifiedId", unifiedId, mapping, Null)
           ELSE /\ lookup' = Looked("getByUnifiedId", unifiedId, mapping, mapping)
                /\ UNCHANGED <<mappings, supplied>>
        /\ UNCHANGED <<now, swrVars, rateVars, apiVars, quotaVars>>

\* the first mapping, in the Map's iteration order, of those at the indices given
\* that has not expired
FirstLive(c, matching) ==
    LET live == {i \in matching : ~MappingExpired(c[i], now)}
    IN  IF live = {} THEN Null
        ELSE c[CHOOSE i \in live : \A j \in live : i <= j]

SpotifyMatches(c, spotifyId) == {i \in DOMAIN c : c[i].spotifyId = spotifyId}

GetBySpotifyId(spotifyId) ==
    /\ lookup' = Looked("getBySpotifyId", spotifyId, Null,
                        FirstLive(mappings, SpotifyMatches(mappings, spotifyId)))
    /\ UNCHANGED <<now, mappings, supplied, swrVars, rateVars, apiVars, quotaVars>>

\* a Last.fm lookup that compares the names as they are written
LastFmMatchesExactly(c, lastFmName) ==
    {i \in DOMAIN c : c[i].lastFmName = lastFmName}

\* mapping.lastFmName?.toLowerCase() === searchName
LastFmMatches(c, lastFmName) ==
    {i \in DOMAIN c : c[i].lastFmName # Absent
                      /\ ToLowerCase(c[i].lastFmName) = ToLowerCase(lastFmName)}

GetByLastFmName(lastFmName) ==
    /\ lookup' = Looked("getByLastFmName", lastFmName, Null,
                        FirstLive(mappings, LastFmMatches(mappings, lastFmName)))
    /\ UNCHANGED <<now, mappings, supplied, swrVars, rateVars, apiVars, quotaVars>>

\* the mapping setMapping builds from its argument and the stored one
Merged(data, existing, t) ==
    [unifiedId |-> data.unifiedId,
     spotifyId |-> OrElse(data.spotifyId, existing.spotifyId),
     spotifyName |-> OrElse(data.spotifyName, existing.spotifyName),
     lastFmName |-> OrElse(data.lastFmName, existing.lastFmName),
     lastUpdated |-> t]

\* the arguments setMapping is called with: each optional field is left out,
\* empty, or a value
MappingData ==
    [unifiedId : UnifiedIds,
     spotifyId : SpotifyIds \cup {Absent},
     spotifyName : SpotifyNames \cup {Absent, ""},
     lastFmName : LastFmNames \cup {Absent}]

SetMapping(data) ==
    LET existing == CacheGet(mappings, data.unifiedId)
        before == SuppliedFor(mappings)[data.unifiedId]
    IN  /\ mappings' = CacheSet(mappings, Merged(data, existing, now))
        /\ supplied' = [supplied EXCEPT ![data.unifiedId] =
                          [spotifyId |-> IF Falsy(data.spotifyId)
                                         THEN before.spotifyId ELSE data.spotifyId,
                           spotifyName |-> IF Falsy(data.spotifyName)
                                           THEN before.spotifyName ELSE data.spotifyName,
                           lastFmName |-> IF Falsy(data.lastFmName)
                                          THEN before.lastFmName ELSE data.lastFmName]]
        /\ lookup' = Looked("setMapping", data, existing, Null)
        /\ UNCHANGED <<now, swrVars, rateVars, apiVars, quotaVars>>

\* ArtistMappingCache.cleanup
MappingCleanup ==
    LET Live(mapping) == ~(now - mapping.lastUpdated > TTL)
    IN  /\ mappings' = SelectSeq(mappings, Live)
        /\ supplied' = SuppliedFor(mappings')
        /\ lookup' = Looked("cleanup", "", Null, Null)
        /\ UNCHANGED <<now, swrVars, rateVars, apiVars, quotaVars>>

MappingTick ==
    /\ now < MaxMappingTicks * MappingStep
    /\ now' = now + MappingStep
    /\ lookup' = Looked("tick", "", Null, Null)
    /\ UNCHANGED <<mappings, supplied, swrVars, rateVars, apiVars, quotaVars>>

MappingInit ==
    /\ mappings = <<>>
    /\ supplied = [unifiedId \in UnifiedIds |-> NothingSupplied]
    /\ lookup = [op |-> "none", arg |-> "", existing |-> Null, result |-> Null, at |-> 0]

----------------------------------------------------------------------------
(* SimpleCache (apiCache) *)

ApiKeys == {"a1", "a2"}
ApiValues == {"d1"}
TtlSeconds == {600, 1200}
ApiStep == 300000
MaxApiTicks == 6

\* the period of the setInterval that calls apiCache.cleanup()
CleanupInterval == 600000

\* what get returns for a key the Map does not hold
NoData == "null"

\* the CacheItem written by set: timestamp is the time the item expires
CacheItem(data, ttlSeconds, t) == [data |-> data, timestamp |-> t + ttlSeconds * 1000]

NeverStored == [at |-> -1, ttlSeconds |-> 0, data |-> NoData]

ApiDid(op, key, data, found, removed) ==
    [op |-> op, key |-> key, data |-> data, found |-> found, removed |-> removed,
     at |-> now]

\* get(key): the item's data, whatever its timestamp
SimpleGet(key) ==
    /\ apiLast' = ApiDid("get", key,
                         IF key \in DOMAIN apiCache THEN apiCache[key].data ELSE NoData,
                         key \in DOMAIN apiCache, 0)
    /\ UNCHANGED <<now, apiCache, apiStored, cleanupDue, swrVars, rateVars, mappingVars, quotaVars>>

\* set(key, data, ttlSeconds)
SimpleSet(key, data, ttlSeconds) ==
    /\ apiCache' = MapSet(apiCache, key, CacheItem(data, ttlSeconds, now))
    /\ apiStored' = [apiStored EXCEPT ![key] =
                        [at |-> now, ttlSeconds |-> ttlSeconds, data |-> data]]
    /\ apiLast' = ApiDid("set", key, data, TRUE, 0)
    /\ UNCHANGED <<now, cleanupDue, swrVars, rateVars, mappingVars, quotaVars>>

\* has(key): false for a missing item and for an expired one, which it deletes
SimpleHas(key) ==
    /\ IF key \notin DOMAIN apiCache
         THEN /\ apiLast' = ApiDid("has", key, NoData, FALSE, 0)
              /\ UNCHANGED apiCache
         ELSE IF now > apiCache[key].timestamp
                THEN /\ apiCache' = MapDelete(apiCache, key)
                     /\ apiLast' = ApiDid("has", key, NoData, FALSE, 1)
                ELSE /\ apiLast' = ApiDid("has", key, NoData, TRUE, 0)
                     /\ UNCHANGED apiCache
    /\ UNCHANGED <<now, apiStored, cleanupDue, swrVars, rateVars, mappingVars, quotaVars>>

\* delete(key)
SimpleDelete(key) ==
    /\ apiCache' = MapDelete(apiCache, key)
    /\ apiLast' = ApiDid("delete", key, NoData, key \in DOMAIN apiCache, 0)
    /\ UNCHANGED <<now, apiStored, cleanupDue, swrVars, rateVars, mappingVars, quotaVars>>

ExpiredItems(c, t) == {key \in DOMAIN c : t > c[key].timestamp}

\* the interval callback, run once its period has elapsed: cleanup() deletes
\* every item whose timestamp has passed and returns how many it deleted
SimpleCleanup ==
    /\ now >= cleanupDue
    /\ cleanupDue' = cleanupDue + CleanupInterval
    /\ apiCache' = [key \in (DOMAIN apiCache) \ ExpiredItems(apiCache, now) |-> apiCache[key]]
    /\ apiLast' = ApiDid("cleanup", "", NoData, FALSE, Cardinality(ExpiredItems(apiCache, now)))
    /\ UNCHANGED <<now, apiStored, swrVars, rateVars, mappingVars, quotaVars>>

ApiTick ==
    /\ now < MaxApiTicks * ApiStep
    /\ now' = now + ApiStep
    /\ apiLast' = ApiDid("tick", "", NoData, FALSE, 0)
    /\ UNCHANGED <<apiCache, apiStored, cleanupDue, swrVars, rateVars, mappingVars, quotaVars>>

ApiInit ==
    /\ apiCache = EmptyMap
    /\ apiStored = [key \in ApiKeys |-> NeverStored]
    /\ apiLast = [op |-> "none", key |-> "", data |-> NoData, found |-> FALSE,
                  removed |-> 0, at |-> 0]
    /\ cleanupDue = CleanupInterval

----------------------------------------------------------------------------
(* YouTubeQuotaTracker and the YouTubeService calls that use it *)

DAILY_QUOTA_LIMIT == 9000
SEARCH_COST == 100
QuotaStep == 86400000
MaxQuotaTicks == 1
MaxPending == 2
MaxStatistics == 2

CallKinds == {"search", "statistics", "top"}

\* new Date().toDateString(), as the number of the day
Today(t) == t \div 86400000

\* checkQuota(requestCost): the tracker after the reset of a new day, and the
\* answer
CheckQuota(usage, resetDate, requestCost, t) ==
    LET today == Today(t)
        usageNow == IF resetDate # today THEN 0 ELSE usage
        wouldExceed == usageNow + requestCost > DAILY_QUOTA_LIMIT
    IN  [dailyUsage |-> usageNow,
         lastResetDate |-> today,
         allowed |-> ~wouldExceed,
         remaining |-> IF wouldExceed
                         THEN (IF DAILY_QUOTA_LIMIT - usageNow > 0
                                 THEN DAILY_QUOTA_LIMIT - usageNow ELSE 0)
                         ELSE DAILY_QUOTA_LIMIT - usageNow - requestCost]

\* recordUsage(cost)
RecordUsage(usage, cost) == usage + cost

Pending == pending["search"] + pending["statistics"] + pending["top"]

\* the getVideoStatistics calls recorded today and those awaiting their request
StatisticsToday == (dailyUsage % SEARCH_COST) + pending["statistics"]

QuotaDid(op, allowed) == [op |-> op, allowed |-> allowed]

\* a call up to its await: checkQuota(requestCost), then the upstream request
\* is started if the answer allows it
StartCall(kind, requestCost) ==
    LET quotaCheck == CheckQuota(dailyUsage, lastResetDate, requestCost, now)
    IN  /\ dailyUsage' = quotaCheck.dailyUsage
        /\ lastResetDate' = quotaCheck.lastResetDate
        /\ pending' = IF quotaCheck.allowed
                        THEN [pending EXCEPT ![kind] = @ + 1]
                        ELSE pending
        /\ quotaLast' = QuotaDid(kind, quotaCheck.allowed)
        /\ UNCHANGED <<now, swrVars, rateVars, mappingVars, apiVars>>

\* searchVideos(query) up to its await
SearchVideos ==
    /\ Pending < MaxPending
    /\ StartCall("search", SEARCH_COST)

\* getVideoStatistics(videoIds), videoIds not empty, up to its await
GetVideoStatistics ==
    /\ Pending < MaxPending
    /\ StatisticsToday < MaxStatistics
    /\ StartCall("statistics", 1)

\* getTopMusicVideos(artistName) up to the await inside its searchVideos call:
\* its own checkQuota(100) and that of searchVideos see the same tracker
GetTopMusicVideos ==
    /\ Pending < MaxPending
    /\ StartCall("top", SEARCH_COST)

\* the request of a searchVideos call settles: a successful one is recorded
SearchSettled(success) ==
    /\ pending["search"] > 0
    /\ pending' = [pending EXCEPT !["search"] = @ - 1]
    /\ dailyUsage' = IF success THEN RecordUsage(dailyUsage, SEARCH_COST) ELSE dailyUsage
    /\ quotaLast' = QuotaDid("searchSettled", success)
    /\ UNCHANGED <<now, lastResetDate, swrVars, rateVars, mappingVars, apiVars>>

\* the request of a getVideoStatistics call settles
StatisticsSettled(success) ==
    /\ pending["statistics"] > 0
    /\ pending' = [pending EXCEPT !["statistics"] = @ - 1]
    /\ dailyUsage' = IF success THEN RecordUsage(dailyUsage, 1) ELSE dailyUsage
    /\ quotaLast' = QuotaDid("statisticsSettled", success)
    /\ UNCHANGED <<now, lastResetDate, swrVars, rateVars, mappingVars, apiVars>>

SearchResults == {"error", "empty", "videos"}

\* the search of a getTopMusicVideos call settles: a successful one is recorded,
\* and one that found videos goes on to getVideoStatistics, up to its await
TopSearchSettled(result) ==
    /\ pending["top"] > 0
    /\ result = "videos" => StatisticsToday < MaxStatistics
    /\ LET recorded == IF result = "error" THEN dailyUsage
                       ELSE RecordUsage(dailyUsage, SEARCH_COST)
           quotaCheck == CheckQuota(recorded, lastResetDate, 1, now)
       IN  IF result = "videos"
             THEN /\ dailyUsage' = quotaCheck.dailyUsage
                  /\ lastResetDate' = quotaCheck.lastResetDate
                  /\ pending' = [pending EXCEPT
                                    !["top"] = @ - 1,
                                    !["statistics"] = IF quotaCheck.allowed THEN @ + 1 ELSE @]
                  /\ quotaLast' = QuotaDid("topStatistics", quotaCheck.allowed)
             ELSE /\ dailyUsage' = recorded
                  /\ pending' = [pending EXCEPT !["top"] = @ - 1]
                  /\ quotaLast' = QuotaDid("topSettled", result # "error")
                  /\ UNCHANGED lastResetDate
    /\ UNCHANGED <<now, swrVars, rateVars, mappingVars, apiVars>>

QuotaTick ==
    /\ now < MaxQuotaTicks * QuotaStep
    /\ now' = now + QuotaStep
    /\ quotaLast' = QuotaDid("tick", FALSE)
    /\ UNCHANGED <<dailyUsage, lastResetDate, pending, swrVars, rateVars, mappingVars, apiVars>>

QuotaInit ==
    /\ dailyUsage = 0
    /\ lastResetDate = Today(0)
    /\ pending = [kind \in CallKinds |-> 0]
    /\ quotaLast = QuotaDid("none", FALSE)

----------------------------------------------------------------------------
(* Specifications *)

SwrInit ==
    /\ cache = EmptyMap
    /\ revalidationPromises = EmptyMap
    /\ upstream = [key \in Keys |-> 0]
    /\ last = Did("none", "", "", "", FALSE, <<>>)

Init ==
    /\ now = 0
    /\ SwrInit
    /\ RateInit
    /\ MappingInit
    /\ isDevelopment = TRUE
    /\ ApiInit
    /\ QuotaInit

\* the SWR cache under get, set, cleanup, settling refreshes and passing time
Next ==
    \/ \E key \in Keys, contentType \in UsedTypes : Get(key, contentType)
    \/ \E key \in Keys, outcome \in Outcomes : Settle(key, outcome)
    \/ \E key \in Keys, data \in Values, contentType \in UsedTypes :
            Set(key, data, contentType)
    \/ Cleanup
    \/ Tick

Spec == Init /\ [][Next]_vars

RateSpecInit ==
    /\ now = 0
    /\ SwrInit
    /\ RateInit
    /\ MappingInit
    /\ MappingInit
    /\ isDevelopment \in BOOLEAN
    /\ ApiInit
    /\ QuotaInit

\* the rate limiter under checkLimit and passing time, in either execution mode
RateNext ==
    \/ \E endpoint \in Endpoints : Check(endpoint)
    \/ \E endpoint \in Endpoints : CheckWithoutIncrement(endpoint)
    \/ RateTick

RateSpec == RateSpecInit /\ [][RateNext]_vars

\* the mapping cache under setMapping, its three lookups, cleanup and passing time
MappingNext ==
    \/ \E data \in MappingData : SetMapping(data)
    \/ \E unifiedId \in UnifiedIds : GetByUnifiedId(unifiedId)
    \/ \E spotifyId \in SpotifySearchIds : GetBySpotifyId(spotifyId)
    \/ \E lastFmName \in SearchNames : GetByLastFmName(lastFmName)
    \/ MappingCleanup
    \/ MappingTick

MappingSpec == Init /\ [][MappingNext]_vars

SeriesSpecInit ==
    /\ now = 0
    /\ SwrInit
    /\ SeriesInit
    /\ MappingInit
    /\ isDevelopment \in BOOLEAN
    /\ ApiInit
    /\ QuotaInit

\* the rate limiter under series of checkLimit calls and passing time, in either
\* execution mode
SeriesNext ==
    \/ \E endpoint \in SeriesEndpoints : CheckSeries(endpoint)
    \/ RateTick

SeriesSpec == SeriesSpecInit /\ [][SeriesNext]_vars

ServiceInit ==
    /\ now = 0
    /\ cache = EmptyMap
    /\ revalidationPromises = EmptyMap
    /\ upstream = [key \in ServiceKeys |-> 0]
    /\ last = Did("none", "", "", "", FALSE, <<>>)
    /\ RateInit
    /\ isDevelopment = TRUE
    /\ MappingInit
    /\ ApiInit
    /\ QuotaInit

\* the SWR cache under the gets of searchArtists and getLatestAlbum, settling
\* refreshes, the hourly cleanup and passing time
ServiceNext ==
    \/ \E key \in ServiceKeys : ServiceGet(key)
    \/ \E key \in ServiceKeys, outcome \in Outcomes : Settle(key, outcome)
    \/ ServiceCleanup
    \/ ServiceTick

ServiceSpec == ServiceInit /\ [][ServiceNext]_vars

DirectInit ==
    /\ now = 0
    /\ cache = EmptyMap
    /\ revalidationPromises = EmptyMap
    /\ upstream = [key \in DirectKeys |-> 0]
    /\ last = Did("none", "", "", "", FALSE, <<>>)
    /\ RateInit
    /\ isDevelopment = TRUE
    /\ MappingInit
    /\ ApiInit
    /\ QuotaInit

\* the SWR cache under set on two keys, get on one of them, settling refreshes
\* and passing time
DirectNext ==
    \/ \E key \in DirectKeys, data \in SetValues, contentType \in DirectTypes :
            Set(key, data, contentType)
    \/ \E key \in ReadKeys, contentType \in DirectTypes : Get(key, contentType)
    \/ \E key \in ReadKeys, outcome \in RefreshOutcomes : Settle(key, outcome)
    \/ DirectTick

DirectSpec == DirectInit /\ [][DirectNext]_vars

\* the SWR cache under get, set and cleanup in any interleaving, with refreshes
\* that settle
LiveNext ==
    \/ \E key \in Keys, contentType \in DirectTypes : Get(key, contentType)
    \/ \E key \in Keys, outcome \in RefreshOutcomes : Settle(key, outcome)
    \/ \E key \in Keys, data \in SetValues, contentType \in DirectTypes :
            Set(key, data, contentType)
    \/ Cleanup
    \/ DirectTick

\* every refresh the cache has invoked eventually resolves or rejects
RefreshesSettle ==
    \A key \in Keys : WF_vars(\E outcome \in RefreshOutcomes : Settle(key, outcome))

LiveSpec == Init /\ [][LiveNext]_vars /\ RefreshesSettle

\* the simple cache under get, set, has, delete, the cleanup interval and
\* passing time
ApiNext ==
    \/ \E key \in ApiKeys : SimpleGet(key)
    \/ \E key \in ApiKeys, data \in ApiValues, ttlSeconds \in TtlSeconds :
            SimpleSet(key, data, ttlSeconds)
    \/ \E key \in ApiKeys : SimpleHas(key)
    \/ \E key \in ApiKeys : SimpleDelete(key)
    \/ SimpleCleanup
    \/ ApiTick

ApiSpec == Init /\ [][ApiNext]_vars

\* the quota tracker under concurrent YouTubeService calls, whose requests
\* settle in any order, and the passing of a day
QuotaNext ==
    \/ SearchVideos
    \/ GetVideoStatistics
    \/ GetTopMusicVideos
    \/ \E success \in BOOLEAN : SearchSettled(success)
    \/ \E success \in BOOLEAN : StatisticsSettled(success)
    \/ \E result \in SearchResults : TopSearchSettled(result)
    \/ QuotaTick

QuotaSpec == Init /\ [][QuotaNext]_vars

----------------------------------------------------------------------------
(* Properties of the SWR cache *)

\* the get continuations resumed by the last settle
ResumedGets == SelectSeq(last.resumed, IsGetWaiter)
IsBackgroundWaiter(waiter) == waiter.kind = "background"
ResumedBackgrounds == SelectSeq(last.resumed, IsBackgroundWaiter)

\* C1: while gets on a key without an entry await its fetch, exactly one refresh
\* is in flight for the key: only the get that found no stored promise invoked its
\* closure; when the refresh settles every awaiting get receives the same outcome,
\* the resolved value with source = fresh and isStale = false, or the error.
DedupProperty ==
    /\ \A key \in DOMAIN revalidationPromises : upstream[key] = 1
    /\ (last.op = "get" /\ last.path = "miss") =>
          /\ last.key \in DOMAIN revalidationPromises
          /\ last.invoked <=> Len(revalidationPromises[last.key]) = 1
    /\ last.op = "settle" =>
          /\ Len(last.results) = Len(ResumedGets)
          /\ \A i \in DOMAIN last.results :
                last.results[i] =
                    IF last.path = "resolved"
                    THEN Returned(last.outcome, FALSE, "fresh")
                    ELSE Thrown

\* two gets missed on the same key, one refresh was invoked, both got its value
DedupWitness ==
    /\ last.op = "settle"
    /\ last.path = "resolved"
    /\ Len(last.resumed) = 2
    /\ \A i \in DOMAIN last.resumed :
          last.resumed[i].kind = "get" /\ last.resumed[i].path = "miss"
    /\ last.results = <<Returned(last.outcome, FALSE, "fresh"),
                        Returned(last.outcome, FALSE, "fresh")>>

\* C2: for every key at most one refresh started by the cache is in flight, and
\* a get in the stale window while a refresh for the key is in flight starts none.
SingleFlight ==
    /\ \A key \in Keys : upstream[key] <= 1
    /\ \A key \in Keys : upstream[key] = 1 <=> key \in DOMAIN revalidationPromises
    /\ (last.op = "get" /\ last.path = "stale" /\ last.invoked) =>
          Len(revalidationPromises[last.key]) = 1

\* a stale-window get found the entry not flagged (it was rewritten by set) while
\* the earlier background revalidation was still in flight, and joined it
SingleFlightWitness ==
    /\ last.op = "get"
    /\ last.path = "stale"
    /\ ~last.invoked
    /\ upstream[last.key] = 1
    /\ Len(revalidationPromises[last.key]) = 2
    /\ \A i \in 1..2 : revalidationPromises[last.key][i].kind = "background"

\* the age the entry of the last get's key had when the get was called, and the
\* policy of the content type the get passed (a get never changes createdAt
\* before its first await)
LastAge == last.at - cache[last.key].createdAt
LastConfig == CONFIG(last.contentType)

\* C4: a get on an entry in the stale window (freshTTL < age <= staleTTL) takes
\* the stale path and is handed the cached value with isStale = true and
\* source = cache in the call itself, while the refresh it triggered or found in
\* flight is still unsettled; no stale-window get ever awaits the key's promise.
StaleServedImmediately ==
    /\ (last.op = "get" /\ last.key \in DOMAIN cache
          /\ LastAge > LastConfig.freshTTL /\ LastAge <= LastConfig.staleTTL) =>
            /\ last.path = "stale"
            /\ last.results = <<Returned(cache[last.key].data, TRUE, "cache")>>
    /\ (last.op = "get" /\ last.path = "stale" /\ last.invoked) =>
            upstream[last.key] = 1
    /\ \A key \in DOMAIN revalidationPromises :
          \A i \in DOMAIN revalidationPromises[key] :
            revalidationPromises[key][i].kind = "get" =>
                revalidationPromises[key][i].path \in {"miss", "expired"}

\* a stale-window get returned the stale value although the refresh it started
\* has not settled
StaleServedWitness ==
    /\ last.op = "get"
    /\ last.path = "stale"
    /\ last.invoked
    /\ upstream[last.key] = 1
    /\ cache[last.key].isRevalidating
    /\ last.results = <<Returned(cache[last.key].data, TRUE, "cache")>>

\* a step in which the refresh promise of a key rejects
RejectStep == last'.op = "settle" /\ last'.path = "rejected" /\ last' # last
\* the kinds of continuations registered on the promise of the key that settles
HasBackground(key) ==
    \E i \in DOMAIN revalidationPromises[key] :
        revalidationPromises[key][i].kind = "background"
HasGet(key) ==
    \E i \in DOMAIN revalidationPromises[key] :
        revalidationPromises[key][i].kind = "get"
\* every entry keeps its data, createdAt and contentType over the step
EntriesKept ==
    /\ DOMAIN cache' = DOMAIN cache
    /\ \A key \in DOMAIN cache :
          /\ cache'[key].data = cache[key].data
          /\ cache'[key].createdAt = cache[key].createdAt
          /\ cache'[key].contentType = cache[key].contentType

\* C5: when the refresh of a background revalidation rejects, no caller served
\* from the cache receives anything (only awaiting gets are resumed), the entry
\* keeps its data and createdAt, its isRevalidating flag is cleared, and a get in
\* the stale window right after it returns the same data with isStale = true.
StaleOnFailure ==
    [][ /\ (RejectStep /\ HasBackground(last'.key)) =>
              /\ EntriesKept
              /\ last'.key \in DOMAIN cache => ~cache'[last'.key].isRevalidating
              /\ Len(last'.results) =
                    Len(SelectSeq(revalidationPromises[last'.key], IsGetWaiter))
        /\ (last.op = "settle" /\ last.path = "rejected"
              /\ Len(ResumedBackgrounds) > 0
              /\ last'.op = "get" /\ last'.path = "stale") =>
              last'.results = <<Returned(cache[last'.key].data, TRUE, "cache")>>
      ]_vars

\* a background revalidation failed and left a stale, unflagged entry behind
StaleOnFailureWitness ==
    /\ last.op = "settle"
    /\ last.path = "rejected"
    /\ Len(ResumedBackgrounds) = 1
    /\ Len(ResumedGets) = 0
    /\ last.key \in DOMAIN cache
    /\ ~cache[last.key].isRevalidating
    /\ now - cache[last.key].createdAt > CONFIG(cache[last.key].contentType).freshTTL
    /\ now - cache[last.key].createdAt <= CONFIG(cache[last.key].contentType).staleTTL

\* C6: when the refresh rejects while gets of the Absent or Expired path await
\* it, every one of them fails with the error, no entry is created, and no entry
\* is overwritten or removed.
FetchFailurePropagates ==
    [][ (RejectStep /\ HasGet(last'.key)) =>
            /\ Len(last'.results) =
                  Len(SelectSeq(revalidationPromises[last'.key], IsGetWaiter))
            /\ \A i \in DOMAIN last'.results : last'.results[i] = Thrown
            /\ EntriesKept
            /\ ~HasBackground(last'.key) => cache' = cache
      ]_vars

\* two gets awaited the fetch for an expired entry; it failed, the entry is still there
FetchFailureWitness ==
    /\ last.op = "settle"
    /\ last.path = "rejected"
    /\ last.results = <<Thrown, Thrown>>
    /\ \E i \in DOMAIN last.resumed : last.resumed[i].path = "expired"
    /\ last.key \in DOMAIN cache
    /\ IsExpired(now - cache[last.key].createdAt, CONFIG(cache[last.key].contentType))

\* C7: a get on an entry older than staleTTL never returns from the cache: like a
\* get on a key without entry it awaits the key's single refresh (invoking the
\* revalidator only when no promise is stored), and when the refresh resolves it
\* returns the refreshed value with source = fresh and isStale = false and the
\* entry holds that value.
ExpiryToRefetch ==
    /\ (last.op = "get" /\ last.key \in DOMAIN cache
          /\ LastAge > LastConfig.staleTTL) =>
            /\ last.path = "expired"
            /\ last.results = <<>>
    /\ (last.op = "get" /\ last.path \in {"expired", "miss"}) =>
            /\ last.results = <<>>
            /\ upstream[last.key] = 1
            /\ last.invoked <=> Len(revalidationPromises[last.key]) = 1
            /\ LET waiters == revalidationPromises[last.key]
               IN  waiters[Len(waiters)] = GetWaiter(last.at, last.contentType, last.path)
    /\ (last.op = "settle" /\ last.path = "resolved" /\ Len(ResumedGets) > 0) =>
            /\ \A i \in DOMAIN last.results :
                  last.results[i] = Returned(last.outcome, FALSE, "fresh")
            /\ cache[last.key].data = last.outcome
            /\ ~cache[last.key].isRevalidating

\* a get found an expired entry, awaited the refresh and returned its value
ExpiryToRefetchWitness ==
    /\ last.op = "settle"
    /\ last.path = "resolved"
    /\ Len(last.resumed) = 1
    /\ last.resumed[1].kind = "get"
    /\ last.resumed[1].path = "expired"
    /\ last.results = <<Returned(last.outcome, FALSE, "fresh")>>
    /\ cache[last.key] = NewEntry(last.outcome, last.resumed[1].now,
                                  last.resumed[1].contentType)

\* C8 (state part): a get on an entry with age <= freshTTL takes the fresh path,
\* returns the stored data with isStale = false, source = cache, invokes nothing
FreshHitResult ==
    (last.op = "get" /\ last.key \in DOMAIN cache /\ LastAge <= LastConfig.freshTTL) =>
        /\ last.path = "fresh"
        /\ last.results = <<Returned(cache[last.key].data, FALSE, "cache")>>
        /\ ~last.invoked
\* C8 (frame part): a fresh hit changes no cache state
FreshHitFrame ==
    (last'.op = "get" /\ last'.path = "fresh") =>
        /\ cache' = cache
        /\ revalidationPromises' = revalidationPromises
        /\ upstream' = upstream

\* C8: a get on an entry with age <= freshTTL (boundary included, with or without
\* a fetch in flight for the key) returns the stored data with isStale = false
\* and source = cache, invokes no refresh, starts no background revalidation and
\* changes no cache state.
FreshHit == [](FreshHitResult) /\ [][FreshHitFrame]_vars

\* a fresh hit at age = freshTTL exactly, while a fetch for the key is in flight
FreshHitWitness ==
    /\ last.op = "get"
    /\ last.path = "fresh"
    /\ LastAge = LastConfig.freshTTL
    /\ upstream[last.key] = 1
    /\ last.results = <<Returned(cache[last.key].data, FALSE, "cache")>>

\* C9: when a background revalidation succeeds, the entry holds the refreshed
\* value, createdAt = the completion time and isRevalidating = false (so that a
\* get within freshTTL of the completion is a fresh hit on the refreshed value).
BackgroundSuccessStamped ==
    (last.op = "settle" /\ last.path = "resolved" /\ Len(ResumedBackgrounds) > 0) =>
        /\ cache[last.key].data = last.outcome
        /\ cache[last.key].createdAt = last.at
        /\ ~cache[last.key].isRevalidating

----------------------------------------------------------------------------
(* Properties of the rate limiter *)

\* C3: once a check has set blocked on a counter at time t, no check against that
\* counter (the endpoint's own, or the global one) is accepted before
\* t + blockDuration.
BlockPersists ==
    (checked.op = "check" /\ checked.result.allowed) =>
        \A key \in {checked.endpoint, "global"} :
            blockedAt[key] = -1 \/ checked.at >= blockedAt[key] + blockDuration

\* the last check was rejected by the global counter, not by the endpoint's own
RejectedByGlobal ==
    \/ checked.result.reason = "global blocked"
    \/ checked.result.reason = "limit exceeded" /\ ~limits[checked.endpoint].blocked

\* C10 as stated: the first max checks inside one window are accepted, the
\* (max+1)-th is rejected, and the first check after the window elapsed is accepted.
RateWindowAsStated ==
    checked.op = "check" =>
        /\ checked.nth <= LIMITS(checked.endpoint).max => checked.result.allowed
        /\ checked.nth = LIMITS(checked.endpoint).max + 1 => ~checked.result.allowed
        /\ checked.newWindow => checked.result.allowed

\* C10 amended: each of the first max checks inside one window of an endpoint (the
\* first check after the previous window elapsed is the first of them) is accepted
\* unless the global counter rejects it or, in production mode, the burst throttle
\* does; of the first max + 1 checks inside one window at most max are accepted.
RateWindow ==
    checked.op = "check" =>
        /\ checked.newWindow => checked.nth = 1
        /\ checked.nth <= LIMITS(checked.endpoint).max =>
              \/ checked.result.allowed
              \/ checked.result.reason = "burst" /\ ~isDevelopment
              \/ RejectedByGlobal
        /\ (checked.nth = LIMITS(checked.endpoint).max + 1 /\ checked.result.allowed) =>
              windowAccepted[checked.endpoint] <= LIMITS(checked.endpoint).max

\* max checks were accepted inside one window and the next one is rejected
RateWindowWitness ==
    /\ checked.op = "check"
    /\ checked.nth = LIMITS(checked.endpoint).max + 1
    /\ windowAccepted[checked.endpoint] = LIMITS(checked.endpoint).max
    /\ ~checked.result.allowed
    /\ checked.result.reason = "limit exceeded"
    /\ limits[checked.endpoint].blocked

\* the entry of a counter as getOrCreateEntry finds or creates it
EntryOf(lim, key, t) == IF key \in DOMAIN lim THEN lim[key] ELSE Created(key, t)

\* C11: checkLimitWithoutIncrement(endpoint) returns the allowed verdict that
\* checkLimit(endpoint) would return in the same state at the same time.
CheckWithoutIncrementAgrees ==
    checked.op = "checkWithoutIncrement" =>
        checked.result.allowed = checked.check.allowed

\* C12: checkLimitWithoutIncrement never increases count or burstCount of the
\* endpoint's counter or of the global counter, and never sets blocked or
\* blockUntil on either: a counter blocked after the call was blocked before it,
\* until the same time.
WithoutIncrementFrame ==
    [][ \A endpoint \in Endpoints :
          CheckWithoutIncrement(endpoint) =>
            \A key \in {endpoint, "global"} :
                LET before == EntryOf(limits, key, now)
                    after == limits'[key]
                IN  /\ after.count <= before.count
                    /\ after.burstCount <= before.burstCount
                    /\ after.blocked => before.blocked
                    /\ after.blockUntil \in {before.blockUntil, Undefined}
      ]_vars

\* checkLimitWithoutIncrement let a request through on counters that hold counts
WithoutIncrementWitness ==
    /\ checked.op = "checkWithoutIncrement"
    /\ checked.result.allowed
    /\ limits[checked.endpoint].count > 0
    /\ limits["global"].count > 0
    /\ limits["global"].count = limits[checked.endpoint].count

----------------------------------------------------------------------------
(* Properties of the mapping cache *)

StoredIds == {mappings[i].unifiedId : i \in DOMAIN mappings}
MappingReads == {"getByUnifiedId", "getBySpotifyId", "getByLastFmName"}

\* C13: the Map holds at most one mapping per unifiedId, and each of spotifyId,
\* spotifyName and lastFmName of a stored mapping is the last non-empty value a
\* setMapping supplied for it since the mapping was stored (undefined if none
\* did): a setMapping that leaves a field out or passes "" keeps the known value.
MergeKeepsSupplied ==
    /\ \A i, j \in DOMAIN mappings :
          mappings[i].unifiedId = mappings[j].unifiedId => i = j
    /\ \A unifiedId \in StoredIds :
          LET mapping == CacheGet(mappings, unifiedId)
          IN  /\ mapping.spotifyId = supplied[unifiedId].spotifyId
              /\ mapping.spotifyName = supplied[unifiedId].spotifyName
              /\ mapping.lastFmName = supplied[unifiedId].lastFmName
    /\ lookup.op = "setMapping" => lookup.arg.unifiedId \in StoredIds

\* a setMapping that supplied only lastFmName found a mapping that only had the
\* Spotify fields, and the stored mapping has all three
MergeWitness ==
    /\ lookup.op = "setMapping"
    /\ lookup.arg.spotifyId = Absent
    /\ lookup.arg.spotifyName = ""
    /\ lookup.arg.lastFmName = "Abba"
    /\ lookup.existing.spotifyId = "s1"
    /\ lookup.existing.spotifyName = "ABBA"
    /\ lookup.existing.lastFmName = Absent
    /\ CacheGet(mappings, lookup.arg.unifiedId) =
          [unifiedId |-> lookup.arg.unifiedId, spotifyId |-> "s1",
           spotifyName |-> "ABBA", lastFmName |-> "Abba", lastUpdated |-> lookup.at]

\* C14: a lookup never returns a mapping whose lastUpdated is more than TTL in
\* the past.  getByUnifiedId returns the stored mapping while its age is at most
\* TTL and null afterwards; getBySpotifyId and getByLastFmName return a mapping
\* with the id or name asked for exactly when one of age at most TTL is stored.
MappingNeverOlderThanTTL ==
    /\ (lookup.op \in MappingReads /\ lookup.result # Null) =>
          lookup.at - lookup.result.lastUpdated <= TTL
    /\ lookup.op = "getByUnifiedId" =>
          lookup.result =
              IF lookup.existing # Null /\ lookup.at - lookup.existing.lastUpdated <= TTL
              THEN lookup.existing ELSE Null
    /\ lookup.op = "getBySpotifyId" =>
          /\ lookup.result # Null <=>
                \E i \in DOMAIN mappings :
                    /\ mappings[i].spotifyId = lookup.arg
                    /\ lookup.at - mappings[i].lastUpdated <= TTL
          /\ lookup.result # Null => lookup.result.spotifyId = lookup.arg
    /\ lookup.op = "getByLastFmName" =>
          /\ lookup.result # Null <=>
                \E i \in DOMAIN mappings :
                    /\ mappings[i].lastFmName # Absent
                    /\ ToLowerCase(mappings[i].lastFmName) = ToLowerCase(lookup.arg)
                    /\ lookup.at - mappings[i].lastUpdated <= TTL
          /\ lookup.result # Null =>
                ToLowerCase(lookup.result.lastFmName) = ToLowerCase(lookup.arg)

\* getBySpotifyId skipped an expired mapping with the id asked for and returned
\* a later one whose age is exactly TTL
MappingTTLWitness ==
    /\ lookup.op = "getBySpotifyId"
    /\ lookup.result # Null
    /\ lookup.at - lookup.result.lastUpdated = TTL
    /\ Len(mappings) = 2
    /\ mappings[1].spotifyId = lookup.arg
    /\ lookup.at - mappings[1].lastUpdated > TTL
    /\ lookup.result = mappings[2]

\* C15: a setMapping for a unifiedId whose stored mapping is older than TTL
\* stores a mapping that holds only the fields this call supplied.
ExpiredAbsentForUpsert ==
    (lookup.op = "setMapping" /\ lookup.existing # Null
        /\ lookup.at - lookup.existing.lastUpdated > TTL) =>
        CacheGet(mappings, lookup.arg.unifiedId) = Merged(lookup.arg, Null, lookup.at)

----------------------------------------------------------------------------
(* Further properties of the SWR cache *)

\* C16: the revalidator is only ever called inside a get: a step starts at most
\* one refresh, it is a get on that key that found no stored promise, and no
\* other step starts one; in particular the step in which a refresh rejects, with
\* any number of gets awaiting it, leaves no refresh in flight for the key, so
\* gets on a failing key without entry cause one call until the next get arrives.
NoSelfRetry ==
    [][ /\ \A key \in Keys :
              upstream'[key] > upstream[key] =>
                  /\ upstream'[key] = upstream[key] + 1
                  /\ upstream[key] = 0
                  /\ last'.op = "get" /\ last'.key = key /\ last'.invoked
                  /\ key \notin DOMAIN revalidationPromises
        /\ RejectStep =>
              /\ upstream[last'.key] = 1
              /\ upstream'[last'.key] = 0
              /\ last'.key \notin DOMAIN revalidationPromises'
      ]_vars

\* two gets missed on a key, the one refresh failed, both were handed the error
\* and nothing is in flight for the key
NoSelfRetryWitness ==
    /\ last.op = "settle"
    /\ last.path = "rejected"
    /\ Len(last.resumed) = 2
    /\ \A i \in DOMAIN last.resumed :
          last.resumed[i].kind = "get" /\ last.resumed[i].path = "miss"
    /\ last.results = <<Thrown, Thrown>>
    /\ upstream[last.key] = 0
    /\ last.key \notin DOMAIN revalidationPromises
    /\ last.key \notin DOMAIN cache

----------------------------------------------------------------------------
(* Properties of the SWR cache as ArtistService calls it *)

\* C17: cleanup returns the number of entries it removed, and after it no entry
\* is left whose age exceeds the staleTTL of its content type.
CleanupRemovesExpired ==
    last.op = "cleanup" =>
        /\ Len(last.results) = 1
        /\ \A key \in DOMAIN cache :
              HasConfig(cache[key].contentType) =>
                  now - cache[key].createdAt <= CONFIG(cache[key].contentType).staleTTL

\* C18: a get on a key that holds an entry takes the fresh, stale or expired
\* path, whatever content type the service passes; an album entry younger than
\* 24 hours is a fresh hit; cleanup does not throw.
EveryContentTypeConfigured ==
    /\ (last.op = "get" /\ last.path # "miss") =>
          last.path \in {"fresh", "stale", "expired"}
    /\ (last.op = "get" /\ last.contentType = "albums" /\ last.key \in DOMAIN cache
          /\ last.at - cache[last.key].createdAt <= Hours(24)) =>
          last.path = "fresh"
    /\ last.op = "cleanup" => last.path # "throws"

----------------------------------------------------------------------------
(* Properties of the rate limiter's shared global counter *)

\* every endpoint checkLimit accepts
AllEndpoints == {"artist-detail", "artist-search", "artist-image", "spotify-tracks",
                 "spotify-albums", "spotify-related", "trending-artists",
                 "youtube-videos", "artist-news"}

\* the global counter is blocked and its cooldown has not elapsed
GlobalHeld ==
    /\ "global" \in DOMAIN limits
    /\ limits["global"].blocked
    /\ Truthy(limits["global"].blockUntil)
    /\ now < limits["global"].blockUntil

\* C19: while the global counter is blocked and its cooldown has not elapsed,
\* checkLimit rejects every endpoint, also those whose own counter is under its
\* max and not blocked.
GlobalBlockRejectsAll ==
    GlobalHeld =>
        \A endpoint \in AllEndpoints :
            ~CheckLimit(limits, endpoint, now, isDevelopment).result.allowed

\* what checkLimit(endpoint) does in the present state when it rejects because
\* a limit would be exceeded: it blocks the endpoint's counter exactly if that
\* one overflowed and the global counter exactly if that one did, until
\* now + blockDuration, and touches no other endpoint's counter; when only the
\* endpoint's counter overflowed, a check for another endpoint under its max is
\* accepted (or, unless asStated, rejected by the burst throttle in production)
OverflowBlocks(endpoint, asStated) ==
    LET endpointEntry == GetOrCreateEntry(limits, endpoint, now)
        globalEntry == GetOrCreateEntry(MapSet(limits, endpoint, endpointEntry),
                                        "global", now)
        overEndpoint == WouldExceed(endpointEntry, LIMITS(endpoint))
        overGlobal == WouldExceed(globalEntry, LIMITS("global"))
        out == CheckLimit(limits, endpoint, now, isDevelopment)
    IN  out.result.reason = "limit exceeded" =>
            /\ out.limits[endpoint].blocked <=> overEndpoint
            /\ overEndpoint => out.limits[endpoint].blockUntil = now + blockDuration
            /\ out.limits["global"].blocked <=> overGlobal
            /\ overGlobal => out.limits["global"].blockUntil = now + blockDuration
            /\ \A other \in AllEndpoints \ {endpoint} :
                  IF other \in DOMAIN limits
                  THEN other \in DOMAIN out.limits /\ out.limits[other] = limits[other]
                  ELSE other \notin DOMAIN out.limits
            /\ (overEndpoint /\ ~overGlobal) =>
                  \A other \in AllEndpoints \ {endpoint} :
                      EntryOf(out.limits, other, now).count < LIMITS(other).max =>
                          LET result == CheckLimit(out.limits, other, now,
                                                   isDevelopment).result
                          IN  \/ result.allowed
                              \/ ~asStated /\ result.reason = "burst" /\ ~isDevelopment

----------------------------------------------------------------------------
(* Properties of a single checkLimit call *)

\* the two counters of checkLimit(endpoint) as getOrCreateEntry returns them now
EndpointEntry(endpoint) == GetOrCreateEntry(limits, endpoint, now)
GlobalEntry(endpoint) ==
    GetOrCreateEntry(MapSet(limits, endpoint, EndpointEntry(endpoint)), "global", now)

\* C21: every accepted check increments the endpoint's count and the global count
\* by exactly one and reports remaining = min(endpointMax - endpointCount,
\* globalMax - globalCount) computed after the increment; every counter always
\* satisfies 0 <= count <= max, so the reported remaining is never negative.
CountedOnce ==
    [][ /\ \A key \in DOMAIN limits' :
              0 <= limits'[key].count /\ limits'[key].count <= LIMITS(key).max
        /\ \A endpoint \in Endpoints :
              Check(endpoint) =>
                /\ checked'.result.remaining >= 0
                /\ checked'.result.allowed =>
                      /\ limits'[endpoint].count = EndpointEntry(endpoint).count + 1
                      /\ limits'["global"].count = GlobalEntry(endpoint).count + 1
                      /\ checked'.result.remaining =
                            Min(LIMITS(endpoint).max - limits'[endpoint].count,
                                LIMITS("global").max - limits'["global"].count)
      ]_vars

\* the check that used up the endpoint's max was accepted with nothing remaining
CountedOnceWitness ==
    /\ checked.op = "check"
    /\ checked.result.allowed
    /\ checked.result.remaining = 0
    /\ limits[checked.endpoint].count = LIMITS(checked.endpoint).max
    /\ limits["global"].count = LIMITS(checked.endpoint).max

\* C22: in development mode the burst throttle never rejects and burstCount is
\* never incremented: a check is rejected only if the endpoint's or the global
\* counter is blocked or at its max.
LenientNeverBurst ==
    [][ \A endpoint \in Endpoints :
          (Check(endpoint) /\ isDevelopment) =>
            /\ \A key \in {endpoint, "global"} :
                  limits'[key].burstCount <= EntryOf(limits, key, now).burstCount
            /\ checked'.result.reason # "burst"
            /\ ~checked'.result.allowed =>
                  \/ EndpointEntry(endpoint).blocked
                  \/ GlobalEntry(endpoint).blocked
                  \/ EndpointEntry(endpoint).count >= LIMITS(endpoint).max
                  \/ GlobalEntry(endpoint).count >= LIMITS("global").max
      ]_vars

\* in development mode a check past burstMax was accepted at the very end of the
\* burst window, where production mode throttles
LenientNeverBurstWitness ==
    /\ isDevelopment
    /\ checked.op = "check"
    /\ checked.result.allowed
    /\ limits["global"].count > burstMax
    /\ limits["global"].burstCount = 0
    /\ limits["global"].lastBurstReset + burstWindow - now <= 3000

BlockedRejection(endpoint) ==
    LET out == CheckLimit(limits, endpoint, now, isDevelopment)
        key == IF out.result.reason = "endpoint blocked" THEN endpoint ELSE "global"
        blockUntil == out.limits[key].blockUntil
    IN  /\ out.result.allowed \in BOOLEAN
        /\ out.result.reason \in {"endpoint blocked", "global blocked"} =>
              /\ ~out.result.allowed
              /\ out.limits[key].blocked
              /\ Truthy(blockUntil)
              /\ blockUntil > now
              /\ out.result.resetIn = Ceil(blockUntil - now, 1000)
              /\ out.result.resetIn >= 1
              /\ out.result.resetIn * 1000 <= blockDuration

\* C24: checkLimit returns a result for every endpoint in every state, and when it
\* rejects because a counter is blocked, that counter's blockUntil is defined and
\* in the future, and resetIn is the remaining cooldown, at least 1 second and at
\* most blockDuration.
CooldownReported ==
    \A endpoint \in AllEndpoints : BlockedRejection(endpoint)

\* a series ended rejected by the endpoint's block while the global counter is
\* blocked as well, so that a check of another endpoint is rejected by it
CooldownReportedWitness ==
    /\ checked.op = "series"
    /\ checked.result.reason = "endpoint blocked"
    /\ checked.result.resetIn >= 1
    /\ CheckLimit(limits, "spotify-albums", now, isDevelopment).result.reason
          = "global blocked"

----------------------------------------------------------------------------
(* Properties of the entries the SWR cache writes *)

\* the path get takes on an entry of the given age under a policy
Classified(age, config) ==
    IF IsExpired(age, config) THEN "expired"
    ELSE IF IsFresh(age, config) THEN "fresh" ELSE "stale"

\* C26: the contentType stored in a key's entry never changes while the key has
\* an entry (no get, background revalidation or set leaves the entry with another
\* content type), and get classifies the entry with the policy of the stored
\* content type.
ContentTypeImmutable ==
    [][ \A key \in Keys :
          key \in DOMAIN cache =>
            /\ key \in DOMAIN cache' =>
                  cache'[key].contentType = cache[key].contentType
            /\ (last'.op = "get" /\ last'.key = key) =>
                  last'.path = Classified(now - cache[key].createdAt,
                                          CONFIG(cache[key].contentType))
      ]_vars

\* C29: every write of an entry (by a get after its refresh resolved, by a
\* background revalidation, by set) stamps createdAt with the time of the write,
\* so the entry has age zero at that moment and a get issued right after it, with
\* no time elapsed, finds it fresh.
WriteStampedNow ==
    (last.op = "set" \/ (last.op = "settle" /\ last.path = "resolved")) =>
        /\ last.key \in DOMAIN cache
        /\ cache[last.key].createdAt = now
        /\ Classified(now - cache[last.key].createdAt,
                      CONFIG(cache[last.key].contentType)) = "fresh"

\* the continuations of background revalidations awaiting the key's refresh
BackgroundsAwaiting(key) ==
    {i \in DOMAIN revalidationPromises[key] :
        revalidationPromises[key][i].kind = "background"}

\* C30: an entry has isRevalidating = true only while exactly one refresh for its
\* key is in flight and recorded in revalidationPromises, with the background
\* revalidation that set the flag awaiting it.
RevalidatingHasRefresh ==
    \A key \in DOMAIN cache :
        cache[key].isRevalidating =>
            /\ key \in DOMAIN revalidationPromises
            /\ upstream[key] = 1
            /\ BackgroundsAwaiting(key) # {}

\* a stale-window get flagged an entry that set had rewritten while a refresh was
\* in flight: two background revalidations await the one refresh
RevalidatingHasRefreshWitness ==
    /\ last.op = "get"
    /\ last.path = "stale"
    /\ ~last.invoked
    /\ cache[last.key].isRevalidating
    /\ upstream[last.key] = 1
    /\ Cardinality(BackgroundsAwaiting(last.key)) = 2

----------------------------------------------------------------------------
(* Properties of the mapping cache's lookups *)

\* the stored mappings that have not expired
LiveMappings == {i \in DOMAIN mappings : ~(now - mappings[i].lastUpdated > TTL)}

\* the stored value differs from the key of the lookup at most in letter case
SameUpToCase(stored, key) == stored # Absent /\ ToLowerCase(stored) = ToLowerCase(key)

\* what getByLastFmName has returned: a live mapping whose name matches the key
\* up to letter case, if there is one
LastFmLookupIgnoresCase ==
    lookup.op = "getByLastFmName" =>
        IF \E i \in LiveMappings : SameUpToCase(mappings[i].lastFmName, lookup.arg)
        THEN /\ lookup.result # Null
             /\ SameUpToCase(lookup.result.lastFmName, lookup.arg)
             /\ \E i \in LiveMappings : mappings[i] = lookup.result
        ELSE lookup.result = Null

\* C27 as stated: a lookup by secondary key matches the stored value
\* case-insensitively for every source: a mapping stored with a Spotify id or a
\* Last.fm name is found by a lookup whose key differs only in letter case.
SecondaryLookupIgnoresCase ==
    /\ LastFmLookupIgnoresCase
    /\ lookup.op = "getBySpotifyId" =>
          IF \E i \in LiveMappings : SameUpToCase(mappings[i].spotifyId, lookup.arg)
          THEN /\ lookup.result # Null
               /\ SameUpToCase(lookup.result.spotifyId, lookup.arg)
          ELSE lookup.result = Null

\* C27 amended: a lookup by Last.fm name matches the stored name
\* case-insensitively; a lookup by Spotify id matches the stored id exactly, so a
\* key that differs from the stored id in letter case finds nothing.
SecondaryLookupMatches ==
    /\ LastFmLookupIgnoresCase
    /\ lookup.op = "getBySpotifyId" =>
          IF \E i \in LiveMappings : mappings[i].spotifyId = lookup.arg
          THEN /\ lookup.result # Null
               /\ lookup.result.spotifyId = lookup.arg
               /\ \E i \in LiveMappings : mappings[i] = lookup.result
          ELSE lookup.result = Null

\* a mapping stored with the Last.fm name "Abba" was found by a lookup of "ABBA"
SecondaryLookupWitness ==
    /\ lookup.op = "getByLastFmName"
    /\ lookup.arg = "ABBA"
    /\ lookup.result # Null
    /\ lookup.result.lastFmName = "Abba"

\* the stored mappings a lookup by secondary key passes over because they match
\* its key but have expired
ExpiredMatches(op, arg) ==
    {i \in DOMAIN mappings :
        /\ now - mappings[i].lastUpdated > TTL
        /\ \/ op = "getBySpotifyId" /\ mappings[i].spotifyId = arg
           \/ op = "getByLastFmName" /\ SameUpToCase(mappings[i].lastFmName, arg)}

\* a read by canonical id that finds the mapping expired removes that record and
\* leaves every other record as it was
ReadByIdEvicts ==
    lookup'.op = "getByUnifiedId" =>
        LET mapping == CacheGet(mappings, lookup'.arg)
        IN  IF mapping # Null /\ now - mapping.lastUpdated > TTL
            THEN /\ lookup'.result = Null
                 /\ IndexOf(mappings', lookup'.arg) = 0
                 /\ Len(mappings') = Len(mappings) - 1
                 /\ \A unifiedId \in UnifiedIds \ {lookup'.arg} :
                       CacheGet(mappings', unifiedId) = CacheGet(mappings, unifiedId)
            ELSE mappings' = mappings

\* C28 as stated: any read that encounters an expired mapping, by canonical id or
\* by a secondary key, removes that record from the table and leaves every other
\* record unchanged.
EveryReadEvicts ==
    [][ /\ ReadByIdEvicts
        /\ lookup'.op \in {"getBySpotifyId", "getByLastFmName"} =>
              /\ \A i \in ExpiredMatches(lookup'.op, lookup'.arg) :
                    IndexOf(mappings', mappings[i].unifiedId) = 0
              /\ \A i \in DOMAIN mappings \ ExpiredMatches(lookup'.op, lookup'.arg) :
                    CacheGet(mappings', mappings[i].unifiedId) = mappings[i]
      ]_vars

\* C28 amended: a read by canonical id that encounters an expired mapping removes
\* that record and leaves every other record unchanged; a read by a secondary key
\* passes over expired mappings, returns none of them and leaves the table as it
\* was.
ReadEvictsById ==
    [][ /\ ReadByIdEvicts
        /\ lookup'.op \in {"getBySpotifyId", "getByLastFmName"} =>
              /\ mappings' = mappings
              /\ lookup'.result # Null =>
                    ~(now - lookup'.result.lastUpdated > TTL)
      ]_vars

\* a read by canonical id found its mapping expired and removed it, while
\* another mapping stays stored
ReadEvictsWitness ==
    /\ lookup.op = "getByUnifiedId"
    /\ lookup.existing # Null
    /\ lookup.at - lookup.existing.lastUpdated > TTL
    /\ lookup.result = Null
    /\ lookup.existing.unifiedId \notin StoredIds
    /\ mappings # <<>>

----------------------------------------------------------------------------
(* Properties of SWRCache.set *)

\* what set(key, data, contentType) leaves behind
SetWrites(key, data, contentType) ==
    /\ cache'[key] = [data |-> data, createdAt |-> now, isRevalidating |-> FALSE,
                      contentType |-> contentType]
    /\ DOMAIN cache' = DOMAIN cache \cup {key}
    /\ \A other \in DOMAIN cache \ {key} : cache'[other] = cache[other]
    /\ revalidationPromises' = revalidationPromises
    /\ upstream' = upstream

\* the key's entry is the one a set wrote (the refreshes resolve with other
\* values) and it is read with its content type within freshTTL of the write
ReadsWhatSetWrote(key, contentType) ==
    /\ key \in DOMAIN cache
    /\ cache[key].data \in SetValues
    /\ cache[key].contentType = contentType
    /\ now - cache[key].createdAt <= CONFIG(contentType).freshTTL

\* C25: set(key, value, contentType) replaces any entry of the key with value,
\* createdAt = now and isRevalidating = false, invokes no refresh and leaves all
\* other keys unchanged; a get on that key within freshTTL afterwards returns
\* value with isStale = false and source = cache.
SetThenFresh ==
    [][ \A key \in DirectKeys, contentType \in DirectTypes :
          /\ \A data \in SetValues :
                Set(key, data, contentType) => SetWrites(key, data, contentType)
          /\ (Get(key, contentType) /\ ReadsWhatSetWrote(key, contentType)) =>
                /\ last'.results = <<Returned(cache[key].data, FALSE, "cache")>>
                /\ ~last'.invoked
                /\ cache' = cache
                /\ upstream' = upstream
      ]_vars

\* a get returned from cache, as fresh, the value set wrote some time before,
\* while the other key holds an entry of its own
SetThenFreshWitness ==
    /\ last.op = "get"
    /\ last.path = "fresh"
    /\ cache[last.key].data \in SetValues
    /\ now > cache[last.key].createdAt
    /\ last.results = <<Returned(cache[last.key].data, FALSE, "cache")>>
    /\ \E other \in DOMAIN cache \ {last.key} :
          cache[other].createdAt # cache[last.key].createdAt

----------------------------------------------------------------------------
(* Properties of writes that race and of rejected checks *)

\* C31: a background revalidation that succeeds overwrites the entry
\* unconditionally: whatever was written to the key after the revalidation
\* started (by set or by another write), the entry after the revalidation
\* completed holds the revalidation's result, unflagged.
BackgroundOverwrites ==
    [][ \A key \in ReadKeys, outcome \in RefreshOutcomes \ {"error"} :
          (Settle(key, outcome) /\ HasBackground(key)) =>
              /\ key \in DOMAIN cache'
              /\ cache'[key].data = outcome
              /\ cache'[key].data \notin SetValues
              /\ ~cache'[key].isRevalidating
      ]_vars

\* a refresh resolved on which two background revalidations waited: the entry
\* was rewritten by set after the first one started (its flag was cleared, so a
\* second stale-window get flagged it again), and it holds the refresh's value
BackgroundOverwritesWitness ==
    /\ last.op = "settle"
    /\ last.path = "resolved"
    /\ Len(ResumedBackgrounds) = 2
    /\ cache[last.key].data = last.outcome
    /\ cache[last.key].data \notin SetValues

\* C32: between two consecutive resets of an endpoint's fixed window the number
\* of accepted checks of the endpoint never exceeds its max, also when a block on
\* the counter starts and expires inside the window.
WindowNeverExceedsMax ==
    \A endpoint \in Endpoints : windowAccepted[endpoint] <= LIMITS(endpoint).max

\* what checkLimit(endpoint) does to the two counters in the present state when
\* it rejects
RejectionCountsNothing(endpoint) ==
    LET out == CheckLimit(limits, endpoint, now, isDevelopment)
    IN  ~out.result.allowed =>
            \A key \in {endpoint, "global"} :
                /\ out.limits[key].count <= EntryOf(limits, key, now).count
                /\ out.limits[key].burstCount <= EntryOf(limits, key, now).burstCount

\* C33: a rejected check consumes no allowance: whatever the reason (endpoint
\* blocked, global blocked, limit overflow, burst), it never increases count or
\* burstCount of the endpoint's counter or of the global counter.
RejectedConsumesNothing ==
    \A endpoint \in AllEndpoints : RejectionCountsNothing(endpoint)

\* a series was rejected by the burst throttle and left the counts it found;
\* a further check of the endpoint is rejected and changes nothing
RejectedConsumesNothingWitness ==
    /\ checked.op = "series"
    /\ checked.result.reason = "burst"
    /\ limits["global"].burstCount >= burstMax
    /\ limits["global"].count = limits["global"].burstCount
    /\ LET out == CheckLimit(limits, checked.endpoint, now, isDevelopment)
       IN  ~out.result.allowed /\ out.limits = limits

----------------------------------------------------------------------------
(* Termination of the gets *)

\* no refresh is in flight
AllSettled == \A key \in Keys : upstream[key] = 0

\* the in-flight table holds no record and no entry is flagged
NothingPending ==
    /\ DOMAIN revalidationPromises = {}
    /\ \A key \in DOMAIN cache : ~cache[key].isRevalidating

\* C34: if every refresh the cache invokes eventually resolves or rejects, every
\* get that awaits one eventually returns or fails (the key's promise is taken
\* off the table and its continuations run), and whenever all refreshes have
\* settled the in-flight table holds no record and no entry is flagged
\* revalidating, in every interleaving of get, set and cleanup.
GetsTerminate ==
    /\ [](AllSettled => NothingPending)
    /\ \A key \in Keys :
          (key \in DOMAIN revalidationPromises) ~> (key \notin DOMAIN revalidationPromises)

\* a refresh settled on which a get and a background revalidation waited; no
\* refresh is in flight any more, the table is empty and the entry unflagged
GetsTerminateWitness ==
    /\ last.op = "settle"
    /\ Len(ResumedGets) > 0
    /\ Len(ResumedBackgrounds) > 0
    /\ AllSettled
    /\ NothingPending
    /\ last.key \in DOMAIN cache

----------------------------------------------------------------------------
(* Properties of the simple cache and of the quota tracker *)

\* C35: get(key) never returns a value stored by set(key, data, ttlSeconds)
\* once more than ttlSeconds have passed since that set, whether or not
\* cleanup has run in between
ReadHonoursTtl ==
    (apiLast.op = "get" /\ apiLast.found)
        => apiLast.at <= apiStored[apiLast.key].at
                            + apiStored[apiLast.key].ttlSeconds * 1000

\* C36: the recorded daily usage never exceeds DAILY_QUOTA_LIMIT, under any
\* interleaving of concurrent searchVideos, getVideoStatistics and
\* getTopMusicVideos calls
QuotaNeverExceeded == dailyUsage <= DAILY_QUOTA_LIMIT

====
